---- MODULE Spec2Model ----
(***************************************************************************)
(* Model of three pieces of glue code:                                     *)
(*   - the annotation API router (wrapRouteHandler and its six routes),    *)
(*   - the entity list filter composer (useEntitiesListFilters),           *)
(*   - the index threshold expression editor (index selection and the      *)
(*     asynchronous field lookup).                                         *)
(* JavaScript's undefined is modelled by the empty sequence None and a     *)
(* defined value v by Some(v); a JSON string body s by JsString(s).        *)
(***************************************************************************)
EXTENDS Integers, Sequences, FiniteSets, TLC

VARIABLES
    pc,          \* router: position of each request's async handler
    req,         \* router: the incoming request (route, parts, context)
    locals,      \* router: esClient and license resolved for each request
    calls,       \* router: invocations of the route's handler, per request
    settled,     \* router: how the handler's promise settled, per request
    responses,   \* router: responses produced, per request
    log,         \* router: entries written to the logger, in order
    selectedSeverities,     \* filters: the hook's three selection arrays
    selectedCriticalities,
    selectedSources,
    globalQuery,            \* filters: useGlobalFilterQuery().filterQuery
    enabledEntityTypes,     \* filters: useEntityStoreTypes()
    filterList,             \* filters: the memoized value the hook returns
    ruleParams,    \* editor: the rule's params, owned by the rule form
    esFields,      \* editor: the esFields state of the component
    lookups,       \* editor: the getFields calls made so far and their fate
    mounted,       \* editor: whether the mount effect has run
    selected,      \* editor: how many times onIndexChange has run
    lastSelection  \* editor: the argument of the latest onIndexChange

routerVars == <<pc, req, locals, calls, settled, responses, log>>

filterVars == <<selectedSeverities, selectedCriticalities, selectedSources,
                globalQuery, enabledEntityTypes, filterList>>

editorVars == <<ruleParams, esFields, lookups, mounted, selected, lastSelection>>

vars == <<routerVars, filterVars, editorVars>>

-----------------------------------------------------------------------------
(* JavaScript values *)

None == <<>>
Some(v) == <<v>>
IsNullish(o) == o = None
Get(o) == o[1]
JsString(s) == [string |-> s]

\* a ?? b
Coalesce(o, default) == IF IsNullish(o) THEN default ELSE Get(o)

RECURSIVE Join(_, _)
\* Array.prototype.join
Join(strs, sep) ==
    IF Len(strs) = 0 THEN ""
    ELSE IF Len(strs) = 1 THEN strs[1]
    ELSE strs[1] \o sep \o Join(Tail(strs), sep)

RECURSIVE Uniq(_)
\* [...new Set(arr)]: drops repeats, keeps the first occurrence's position
Uniq(s) ==
    IF Len(s) = 0 THEN <<>>
    ELSE LET rest == Uniq(SubSeq(s, 1, Len(s) - 1))
             last == s[Len(s)]
         IN  IF \E i \in 1..Len(rest) : rest[i] = last THEN rest
             ELSE Append(rest, last)

SeqMap(F(_), s) == [i \in 1..Len(s) |-> F(s[i])]

RECURSIVE SeqFilter(_, _)
SeqFilter(P(_), s) ==
    IF Len(s) = 0 THEN <<>>
    ELSE IF P(s[1]) THEN <<s[1]>> \o SeqFilter(P, Tail(s))
    ELSE SeqFilter(P, Tail(s))

-----------------------------------------------------------------------------
(* Annotation API router *)

NumRequests == 2

Requests == 1..NumRequests

index == "observability-annotations"

Routes == {"create", "update", "delete", "getById", "find", "permissions"}

\* the request part each route's io-ts type declares: t.type({ <key>: ...Rt })
RouteKey(route) ==
    CASE route = "create" -> Some("body")
      [] route = "update" -> Some("body")
      [] route = "delete" -> Some("params")
      [] route = "getById" -> Some("params")
      [] route = "find" -> Some("query")
      [] route = "permissions" -> None

\* the client method each route's handler calls
RouteMethod(route) == route

\* A request part is a list of field values; "v1" conforms to the runtime
\* type, "x1" and "x2" do not.
FieldValues == {"v1", "x1", "x2"}
ValidField(f) == f = "v1"

PartValues == {<<>>, <<"v1">>, <<"x1">>, <<"x1", "x2">>, <<"x2", "x2">>, <<"v1", "x1">>}

\* the decoded form of a conforming field value
DecodeField(f) == "decoded(" \o f \o ")"

isLeft(validation) == validation._tag = "Left"

\* rt.decode(data) for rt = t.type({ [key]: partRt }): only the declared part
\* is validated; one error per field that does not conform
decode(route, data) ==
    IF IsNullish(RouteKey(route)) THEN [_tag |-> "Right", right |-> data]
    ELSE LET key == Get(RouteKey(route))
             part == data[key]
             bad(f) == ~ValidField(f)
             err(f) == [value |-> f, key |-> key, message |-> None]
             errors == SeqMap(err, SeqFilter(bad, part))
         IN  IF Len(errors) > 0 THEN [_tag |-> "Left", left |-> errors]
             ELSE [_tag |-> "Right",
                   right |-> [data EXCEPT ![key] = SeqMap(DecodeField, part)]]

\* formatErrors of @kbn/securitysolution-io-ts-utils
formatErrors(errors) ==
    LET fmt(e) == IF ~IsNullish(e.message) THEN Get(e.message)
                  ELSE "Invalid value \"" \o e.value \o "\" supplied to \"" \o e.key \o "\""
    IN  Uniq(SeqMap(fmt, errors))

\* Kibana response factory
badRequest(options) == [statusCode |-> 400, body |-> options.body]
ok(options) == [statusCode |-> 200, body |-> options.body]
custom(options) == [statusCode |-> options.statusCode, body |-> options.body]

\* const data = { body: request.body, query: request.query, params: request.params }
RequestData(request) ==
    [body |-> request.body, query |-> request.query, params |-> request.params]

DecodeFailureResponse_comma(validation) ==
    badRequest([body |-> JsString(Join(formatErrors(validation.left), ","))])

DecodeFailureResponse_envelope(validation) ==
    badRequest([body |-> [message |-> Join(formatErrors(validation.left), "|")]])

\* response.badRequest({ body: formatErrors(validation.left).join('|') })
DecodeFailureResponse(validation) ==
    badRequest([body |-> JsString(Join(formatErrors(validation.left), "|"))])

\* the client of whichever request is the lowest-numbered one received
ResolveEsClient_shared(r) ==
    LET first == CHOOSE q \in Requests :
                    /\ ~IsNullish(req[q])
                    /\ \A p \in Requests : ~IsNullish(req[p]) => q <= p
    IN  Get(req[first]).context.core.asCurrentUser

\* (await context.core).elasticsearch.client.asCurrentUser
ResolveEsClient(r) == Get(req[r]).context.core.asCurrentUser

\* (await context.licensing)?.license
ResolveLicense(r) ==
    IF IsNullish(Get(req[r]).context.licensing) THEN None
    ELSE Some(Get(Get(req[r]).context.licensing).license)

createAnnotationsClient(esClient, license) ==
    [index |-> index, esClient |-> esClient, license |-> license]

HandlerParams_raw(data, validation, client) == [data |-> data, client |-> client]

\* handler({ data: validation.right, client })
HandlerParams(data, validation, client) == [data |-> validation.right, client |-> client]

\* ({ data, client }) => client.<method>(data.<key>)
HandlerCall(route, params) ==
    [data |-> params.data,
     client |-> params.client,
     method |-> RouteMethod(route),
     arg |-> IF IsNullish(RouteKey(route)) THEN None
             ELSE Some(params.data[Get(RouteKey(route))])]

\* the status falls back to 500 whenever the message falls back too
StatusCodeOf_coupled(error) ==
    IF IsNullish(error.output) THEN 500
    ELSE IF IsNullish(Get(error.output).payload) THEN 500
    ELSE IF IsNullish(Get(Get(error.output).payload).message) THEN 500
    ELSE Coalesce(Get(error.output).statusCode, 500)

\* error.output?.statusCode ?? 500
StatusCodeOf(error) ==
    IF IsNullish(error.output) THEN 500
    ELSE Coalesce(Get(error.output).statusCode, 500)

\* error.message
ErrorMessageOf_own(error) == error.message

\* error.output?.payload?.message ?? 'An internal server error occurred'
ErrorMessageOf(error) ==
    IF IsNullish(error.output) THEN "An internal server error occurred"
    ELSE IF IsNullish(Get(error.output).payload) THEN "An internal server error occurred"
    ELSE Coalesce(Get(Get(error.output).payload).message, "An internal server error occurred")

LogLevel_gt(statusCode) == IF statusCode > 500 THEN "error" ELSE "debug"

\* if (statusCode >= 500) logger.error(...) else logger.debug(...)
LogLevel(statusCode) == IF statusCode >= 500 THEN "error" ELSE "debug"

\* response.custom({ statusCode, body: { message: errorMessage } })
ErrorResponse(error) ==
    custom([statusCode |-> StatusCodeOf(error),
            body |-> [message |-> ErrorMessageOf(error)]])

\* response.ok({ body: res })
SuccessResponse(res) == ok([body |-> res])

(* inputs *)

Contexts ==
    [core : [asCurrentUser : {"es-as-alice", "es-as-bob"}],
     licensing : {None, Some([license |-> "basic"]), Some([license |-> "platinum"])}]

StatusCodes == {404, 499, 500, 503}

Payloads == {None, Some([message |-> None]), Some([message |-> Some("")]),
             Some([message |-> Some("Not Found")]),
             Some([message |-> Some("annotation missing")])}

Outputs ==
    {None} \cup
    {Some([statusCode |-> sc, payload |-> p]) :
        sc \in {None} \cup {Some(c) : c \in StatusCodes}, p \in Payloads}

\* what a client method may throw: an Error, possibly a Boom-style one
Errors == [message : {"annotation missing"}, output : Outputs]

\* what a client method may return
Results == {[_id |-> "a1"], [acknowledged |-> TRUE]}

\* every request the router may receive
AllRequests ==
    [route : Routes, body : PartValues, query : PartValues, params : PartValues,
     context : Contexts]

\* reduced inputs for the runs with several requests in flight
FewRequests ==
    [route : {"create", "permissions"}, body : {<<"v1">>, <<"x1">>},
     query : {<<>>}, params : {<<>>},
     context : {[core |-> [asCurrentUser |-> "es-as-alice"],
                 licensing |-> Some([license |-> "basic"])],
                [core |-> [asCurrentUser |-> "es-as-bob"],
                 licensing |-> Some([license |-> "platinum"])]}]
FewErrors ==
    {[message |-> "annotation missing", output |-> None],
     [message |-> "annotation missing",
      output |-> Some([statusCode |-> Some(404),
                       payload |-> Some([message |-> Some("Not Found")])])]}
FewResults == {[_id |-> "a1"]}

(* the wrapped request handler, one action per synchronous stretch *)

\* the router dispatches a request to the wrapped handler, which runs up to
\* the bad-request return or the first await
Invoke(r, requests) ==
    /\ pc[r] = "idle"
    /\ \E request \in requests :
         LET validation == decode(request.route, RequestData(request))
         IN  /\ req' = [req EXCEPT ![r] = Some(request)]
             /\ IF isLeft(validation)
                THEN /\ responses' = [responses EXCEPT
                            ![r] = Append(@, DecodeFailureResponse(validation))]
                     /\ pc' = [pc EXCEPT ![r] = "done"]
                ELSE /\ pc' = [pc EXCEPT ![r] = "awaitCore"]
                     /\ UNCHANGED responses
    /\ UNCHANGED <<locals, calls, settled, log, filterVars, editorVars>>

\* const esClient = (await context.core).elasticsearch.client.asCurrentUser
ResolveCore(r) ==
    /\ pc[r] = "awaitCore"
    /\ locals' = [locals EXCEPT ![r].esClient = Some(ResolveEsClient(r))]
    /\ pc' = [pc EXCEPT ![r] = "awaitLicensing"]
    /\ UNCHANGED <<req, calls, settled, responses, log, filterVars, editorVars>>

\* const license = (await context.licensing)?.license; the client is created
\* and the route's handler is called, which runs up to its own await
ResolveLicensing(r) ==
    /\ pc[r] = "awaitLicensing"
    /\ LET license == ResolveLicense(r)
           client == createAnnotationsClient(Get(locals[r].esClient), license)
           data == RequestData(Get(req[r]))
           validation == decode(Get(req[r]).route, data)
       IN  /\ locals' = [locals EXCEPT ![r].license = license]
           /\ calls' = [calls EXCEPT
                  ![r] = Append(@, HandlerCall(Get(req[r]).route,
                                               HandlerParams(data, validation, client)))]
    /\ pc' = [pc EXCEPT ![r] = "awaitHandler"]
    /\ UNCHANGED <<req, settled, responses, log, filterVars, editorVars>>

\* the handler's promise resolves: return response.ok({ body: res })
HandlerResolves(r, results) ==
    /\ pc[r] = "awaitHandler"
    /\ \E res \in results :
         /\ settled' = [settled EXCEPT ![r] = Some([kind |-> "resolved", value |-> res])]
         /\ responses' = [responses EXCEPT ![r] = Append(@, SuccessResponse(res))]
    /\ pc' = [pc EXCEPT ![r] = "done"]
    /\ UNCHANGED <<req, locals, calls, log, filterVars, editorVars>>

\* the handler throws: the catch block logs and returns response.custom(...)
HandlerRejects(r, errors) ==
    /\ pc[r] = "awaitHandler"
    /\ \E error \in errors :
         /\ settled' = [settled EXCEPT ![r] = Some([kind |-> "rejected", value |-> error])]
         /\ log' = Append(log, [level |-> LogLevel(StatusCodeOf(error)),
                                message |-> ErrorMessageOf(error),
                                error |-> error,
                                request |-> r])
         /\ responses' = [responses EXCEPT ![r] = Append(@, ErrorResponse(error))]
    /\ pc' = [pc EXCEPT ![r] = "done"]
    /\ UNCHANGED <<req, locals, calls, filterVars, editorVars>>

InitRouter ==
    /\ pc = [r \in Requests |-> "idle"]
    /\ req = [r \in Requests |-> None]
    /\ locals = [r \in Requests |-> [esClient |-> None, license |-> None]]
    /\ calls = [r \in Requests |-> <<>>]
    /\ settled = [r \in Requests |-> None]
    /\ responses = [r \in Requests |-> <<>>]
    /\ log = <<>>

-----------------------------------------------------------------------------
(* Entity list filter composer *)

MaxSel == 2

RISK_SCORE_INDEX_PATTERN == "risk-score.risk-score-*"
ASSET_CRITICALITY_INDEX_PATTERN == ".asset-criticality.asset-criticality-*"

\* EntitySourceTag
SourceTagRisk == "Risk"
SourceTagCriticality == "Asset Criticality"
SourceTagEvents == "Events"

RiskScoreFieldsUnsupported == "unsupported"

EntityTypes == {"user", "host", "generic"}

EntityTypeToLevelField ==
    [type \in EntityTypes |->
        CASE type = "user" -> "user.risk.calculated_level"
          [] type = "host" -> "host.risk.calculated_level"
          [] type = "generic" -> RiskScoreFieldsUnsupported]

RiskSeverities == {"Low", "High", "Critical"}
CriticalityLevels == {"low_impact", "high_impact", "extreme_impact"}
SourceTags == {SourceTagRisk, SourceTagCriticality, SourceTagEvents}

Range(s) == {s[i] : i \in 1..Len(s)}

\* arrays of distinct values of S, at most MaxSel long
Selections(S) ==
    UNION {{s \in [1..n -> S] : \A i, j \in 1..n : s[i] = s[j] => i = j} : n \in 0..MaxSel}

EntityTypeLists ==
    {<<>>, <<"generic">>, <<"user">>, <<"host", "user">>, <<"user", "host", "generic">>}

GlobalQueries ==
    {None,
     Some([bool |-> [must |-> <<>>,
                     filter |-> <<[match_phrase |-> [host_name |-> "web-1"]]>>,
                     should |-> <<>>,
                     must_not |-> <<>>]]),
     Some([bool |-> [should |-> <<[match_phrase |-> [host_name |-> "web-1"]]>>]])}

getSourceTagFilterQuery(tag) ==
    IF tag = SourceTagRisk
    THEN [wildcard |-> ("entity.source" :> RISK_SCORE_INDEX_PATTERN)]
    ELSE IF tag = SourceTagCriticality
    THEN [wildcard |-> ("entity.source" :> ASSET_CRITICALITY_INDEX_PATTERN)]
    ELSE [bool |->
            [must_not |->
                <<[wildcard |-> ("entity.source" :> ASSET_CRITICALITY_INDEX_PATTERN)],
                  [wildcard |-> ("entity.source" :> RISK_SCORE_INDEX_PATTERN)]>>]]

criticalityFilter(criticalities) ==
    IF Len(criticalities) # 0
    THEN LET term(value) == [term |-> ("asset.criticality" :> value)]
         IN  <<[bool |-> [should |-> SeqMap(term, criticalities)]]>>
    ELSE <<>>

sourceFilter(sources) ==
    IF Len(sources) # 0
    THEN <<[bool |-> [should |-> SeqMap(getSourceTagFilterQuery, sources)]]>>
    ELSE <<>>

\* no group at all when no enabled type has a level field
severityFilter_skipEmpty(severities, types) ==
    LET supported(type) == EntityTypeToLevelField[type] # RiskScoreFieldsUnsupported
        terms(type) == [terms |-> (EntityTypeToLevelField[type] :> severities)]
        should == SeqMap(terms, SeqFilter(supported, types))
    IN  IF Len(severities) # 0 /\ Len(should) # 0
        THEN <<[bool |-> [should |-> should]]>>
        ELSE <<>>

severityFilter(severities, types) ==
    IF Len(severities) # 0
    THEN LET supported(type) == EntityTypeToLevelField[type] # RiskScoreFieldsUnsupported
             terms(type) == [terms |-> (EntityTypeToLevelField[type] :> severities)]
         IN  <<[bool |-> [should |-> SeqMap(terms, SeqFilter(supported, types))]]>>
    ELSE <<>>

\* the groups spread in the order their constants are declared
useEntitiesListFilters_declOrder(severities, criticalities, sources, query, types) ==
    LET list == criticalityFilter(criticalities) \o sourceFilter(sources)
                    \o severityFilter(severities, types)
    IN  IF ~IsNullish(query) THEN Append(list, Get(query)) ELSE list

\* the body of the useMemo callback
useEntitiesListFilters(severities, criticalities, sources, query, types) ==
    LET list == severityFilter(severities, types) \o criticalityFilter(criticalities)
                    \o sourceFilter(sources)
    IN  IF ~IsNullish(query) THEN Append(list, Get(query)) ELSE list

\* a render after one of the hook's inputs changed: useMemo recomputes
Render(severities, criticalities, sources, query, types) ==
    /\ selectedSeverities' = severities
    /\ selectedCriticalities' = criticalities
    /\ selectedSources' = sources
    /\ globalQuery' = query
    /\ enabledEntityTypes' = types
    /\ filterList' = useEntitiesListFilters(severities, criticalities, sources, query, types)
    /\ UNCHANGED <<routerVars, editorVars>>

SelectSeverities ==
    \E sel \in Selections(RiskSeverities) :
        /\ sel # selectedSeverities
        /\ Render(sel, selectedCriticalities, selectedSources, globalQuery,
                  enabledEntityTypes)

SelectCriticalities ==
    \E sel \in Selections(CriticalityLevels) :
        /\ sel # selectedCriticalities
        /\ Render(selectedSeverities, sel, selectedSources, globalQuery,
                  enabledEntityTypes)

SelectSources ==
    \E sel \in Selections(SourceTags) :
        /\ sel # selectedSources
        /\ Render(selectedSeverities, selectedCriticalities, sel, globalQuery,
                  enabledEntityTypes)

ChangeGlobalQuery ==
    \E query \in GlobalQueries :
        /\ query # globalQuery
        /\ Render(selectedSeverities, selectedCriticalities, selectedSources, query,
                  enabledEntityTypes)

ChangeEnabledEntityTypes ==
    \E types \in EntityTypeLists :
        /\ types # enabledEntityTypes
        /\ Render(selectedSeverities, selectedCriticalities, selectedSources,
                  globalQuery, types)

\* the first render: nothing selected
InitFilters ==
    /\ selectedSeverities = <<>>
    /\ selectedCriticalities = <<>>
    /\ selectedSources = <<>>
    /\ globalQuery = None
    /\ enabledEntityTypes = <<"user", "host", "generic">>
    /\ filterList = useEntitiesListFilters(selectedSeverities, selectedCriticalities,
                                           selectedSources, globalQuery,
                                           enabledEntityTypes)

-----------------------------------------------------------------------------
(* Index threshold expression editor *)

MaxSelections == 3

JsArray(a) == [array |-> a]

DEFAULT_VALUES ==
    [AGGREGATION_TYPE |-> "count",
     TERM_SIZE |-> 5,
     THRESHOLD_COMPARATOR |-> ">",
     TIME_WINDOW_SIZE |-> 5,
     TIME_WINDOW_UNIT |-> "m",
     THRESHOLD |-> <<1000>>,
     GROUP_BY |-> "all"]

isString(value) == DOMAIN value = {"string"}

\* normalize the `index` parameter to be a string array
indexParamToArray(indexParam) ==
    IF IsNullish(indexParam) THEN <<>>
    ELSE IF isString(Get(indexParam))
    THEN IF Get(indexParam).string = "" THEN <<>> ELSE <<Get(indexParam).string>>
    ELSE Get(indexParam).array

\* the index lists the popover can hand to onIndexChange
IndexLists == {<<>>, <<"logs-a">>, <<"logs-a", "logs-b">>}

TimeFields == {"@timestamp", "event.ingested"}

\* the params of a rule being created
NewRuleParams ==
    [index |-> None, timeField |-> None, aggType |-> None, aggField |-> None,
     groupBy |-> None, termSize |-> None, termField |-> None,
     thresholdComparator |-> None, threshold |-> None, timeWindowSize |-> None,
     timeWindowUnit |-> None, filterKuery |-> None]

\* the params of a rule being edited
SavedRuleParams ==
    [index |-> Some(JsArray(<<"logs-b">>)), timeField |-> Some("@timestamp"),
     aggType |-> Some("avg"), aggField |-> Some("bytes"),
     groupBy |-> Some("top"), termSize |-> Some(10), termField |-> Some("host.name"),
     thresholdComparator |-> Some("between"), threshold |-> Some(<<10, 20>>),
     timeWindowSize |-> Some(1), timeWindowUnit |-> Some("h"),
     filterKuery |-> Some("status:error")]

\* the params of a rule saved with a single index given as a string
StringIndexRuleParams ==
    [NewRuleParams EXCEPT !.index = Some(JsString("logs-a")),
                          !.timeField = Some("@timestamp")]

InitialRuleParams == {NewRuleParams, SavedRuleParams, StringIndexRuleParams}

\* the rule form's setRuleParams(key, value)
setRuleParams(params, key, value) == [params EXCEPT ![key] = value]

\* the rule form's setRuleProperty('params', value)
setRuleProperty(params, value) == value

\* what getFields resolves with for a list of indices
getFields(indices) ==
    LET field(i) == [name |-> i \o ".bytes", type |-> "long",
                     normalizedType |-> "number", searchable |-> TRUE,
                     aggregatable |-> TRUE]
    IN  SeqMap(field, indices)

\* refreshEsFields up to its await: the getFields call goes out
refreshEsFields(indices, caller) ==
    Append(lookups, [indices |-> indices, status |-> "pending", by |-> caller])

\* the lookup is made for the indices of the last render
LookupIndices_rendered(indices) == indexParamToArray(ruleParams.index)

\* the argument onIndexChange hands to refreshEsFields
LookupIndices(indices) == indices

\* useEffect(() => { setDefaultExpressionValues(); }, [])
Mount ==
    /\ ~mounted
    /\ mounted' = TRUE
    /\ ruleParams' = setRuleProperty(ruleParams,
          [ruleParams EXCEPT
             !.aggType = Some(Coalesce(ruleParams.aggType, DEFAULT_VALUES.AGGREGATION_TYPE)),
             !.termSize = Some(Coalesce(ruleParams.termSize, DEFAULT_VALUES.TERM_SIZE)),
             !.thresholdComparator =
                 Some(Coalesce(ruleParams.thresholdComparator,
                               DEFAULT_VALUES.THRESHOLD_COMPARATOR)),
             !.timeWindowSize =
                 Some(Coalesce(ruleParams.timeWindowSize, DEFAULT_VALUES.TIME_WINDOW_SIZE)),
             !.timeWindowUnit =
                 Some(Coalesce(ruleParams.timeWindowUnit, DEFAULT_VALUES.TIME_WINDOW_UNIT)),
             !.groupBy = Some(Coalesce(ruleParams.groupBy, DEFAULT_VALUES.GROUP_BY)),
             !.threshold = Some(Coalesce(ruleParams.threshold, DEFAULT_VALUES.THRESHOLD))])
    /\ LET indexArray == indexParamToArray(ruleParams.index)
       IN  IF Len(indexArray) > 0
           THEN /\ lookups' = refreshEsFields(indexArray, "mount")
                /\ UNCHANGED esFields
           ELSE /\ esFields' = Some(<<>>)
                /\ UNCHANGED lookups
    /\ UNCHANGED <<selected, lastSelection, routerVars, filterVars>>

\* the reset object built without spreading the previous params
ResetExpressionFields_noSpread(params, indices) ==
    [index |-> Some(JsArray(indices)),
     timeField |-> Some(""),
     aggType |-> Some(DEFAULT_VALUES.AGGREGATION_TYPE),
     aggField |-> None,
     groupBy |-> Some(DEFAULT_VALUES.GROUP_BY),
     termSize |-> Some(DEFAULT_VALUES.TERM_SIZE),
     termField |-> None,
     thresholdComparator |-> Some(DEFAULT_VALUES.THRESHOLD_COMPARATOR),
     threshold |-> Some(DEFAULT_VALUES.THRESHOLD),
     timeWindowSize |-> Some(DEFAULT_VALUES.TIME_WINDOW_SIZE),
     timeWindowUnit |-> Some(DEFAULT_VALUES.TIME_WINDOW_UNIT),
     filterKuery |-> None]

\* reset expression fields if indices are deleted:
\* { ...ruleParams, index: indices, aggType: DEFAULT_VALUES.AGGREGATION_TYPE, ... }
ResetExpressionFields(params, indices) ==
    [params EXCEPT
       !.index = Some(JsArray(indices)),
       !.aggType = Some(DEFAULT_VALUES.AGGREGATION_TYPE),
       !.termSize = Some(DEFAULT_VALUES.TERM_SIZE),
       !.thresholdComparator = Some(DEFAULT_VALUES.THRESHOLD_COMPARATOR),
       !.timeWindowSize = Some(DEFAULT_VALUES.TIME_WINDOW_SIZE),
       !.timeWindowUnit = Some(DEFAULT_VALUES.TIME_WINDOW_UNIT),
       !.groupBy = Some(DEFAULT_VALUES.GROUP_BY),
       !.threshold = Some(DEFAULT_VALUES.THRESHOLD),
       !.timeField = Some("")]

\* IndexSelectPopover's onIndexChange
OnIndexChange(indices) ==
    /\ mounted
    /\ selected < MaxSelections
    /\ selected' = selected + 1
    /\ lastSelection' = Some(indices)
    /\ LET withIndex == setRuleParams(ruleParams, "index", Some(JsArray(indices)))
       IN  IF Len(indices) = 0
           THEN /\ ruleParams' = setRuleProperty(withIndex,
                                                 ResetExpressionFields(ruleParams, indices))
                /\ UNCHANGED lookups
           ELSE /\ ruleParams' = withIndex
                /\ lookups' = refreshEsFields(LookupIndices(indices), "onIndexChange")
    /\ UNCHANGED <<esFields, mounted, routerVars, filterVars>>

\* IndexSelectPopover's onTimeFieldChange
OnTimeFieldChange(updatedTimeField) ==
    /\ mounted
    /\ ruleParams.timeField # Some(updatedTimeField)
    /\ ruleParams' = setRuleParams(ruleParams, "timeField", Some(updatedTimeField))
    /\ UNCHANGED <<esFields, lookups, mounted, selected, lastSelection,
                   routerVars, filterVars>>

\* a pending getFields call resolves: setEsFields(currentEsFields)
GetFieldsResolves(k) ==
    /\ lookups[k].status = "pending"
    /\ lookups' = [lookups EXCEPT ![k].status = "resolved"]
    /\ esFields' = Some(getFields(lookups[k].indices))
    /\ UNCHANGED <<ruleParams, mounted, selected, lastSelection, routerVars, filterVars>>

\* a pending getFields call rejects: refreshEsFields throws past its caller
GetFieldsRejects(k) ==
    /\ lookups[k].status = "pending"
    /\ lookups' = [lookups EXCEPT ![k].status = "rejected"]
    /\ UNCHANGED <<ruleParams, esFields, mounted, selected, lastSelection,
                   routerVars, filterVars>>

\* the first render: const [esFields, setEsFields] = useState(undefined)
InitEditor(initialParams) ==
    /\ ruleParams \in initialParams
    /\ esFields = None
    /\ lookups = <<>>
    /\ mounted = FALSE
    /\ selected = 0
    /\ lastSelection = None

-----------------------------------------------------------------------------
(* Specifications *)

Init == InitRouter /\ InitFilters /\ InitEditor({NewRuleParams})

\* the editor opened on a new rule or on a saved one
InitAnyRule == InitRouter /\ InitFilters /\ InitEditor(InitialRuleParams)

\* one request, every input
Next ==
    \/ Invoke(1, AllRequests)
    \/ ResolveCore(1)
    \/ ResolveLicensing(1)
    \/ HandlerResolves(1, Results)
    \/ HandlerRejects(1, Errors)

Spec == Init /\ [][Next]_vars

\* several requests in flight, interleaved at every await
NextConcurrent ==
    \E r \in Requests :
        \/ Invoke(r, FewRequests)
        \/ ResolveCore(r)
        \/ ResolveLicensing(r)
        \/ HandlerResolves(r, FewResults)
        \/ HandlerRejects(r, FewErrors)

SpecConcurrent == Init /\ [][NextConcurrent]_vars

\* the filter hook re-rendered with changing inputs
NextFilters ==
    \/ SelectSeverities
    \/ SelectCriticalities
    \/ SelectSources
    \/ ChangeGlobalQuery
    \/ ChangeEnabledEntityTypes

SpecFilters == Init /\ [][NextFilters]_vars

\* the editor: mount, user input, and lookups settling in any order
NextEditor ==
    \/ Mount
    \/ \E indices \in IndexLists : OnIndexChange(indices)
    \/ \E timeField \in TimeFields : OnTimeFieldChange(timeField)
    \/ \E k \in 1..Len(lookups) : GetFieldsResolves(k)
    \/ \E k \in 1..Len(lookups) : GetFieldsRejects(k)

SpecEditor == InitAnyRule /\ [][NextEditor]_vars

-----------------------------------------------------------------------------
(* Properties of the annotation API router *)

Received(r) == ~IsNullish(req[r])
Validation(r) == decode(Get(req[r]).route, RequestData(Get(req[r])))
DecodeFails(r) == Received(r) /\ Validation(r)._tag = "Left"
Threw(r) == ~IsNullish(settled[r]) /\ Get(settled[r]).kind = "rejected"
Returned(r) == ~IsNullish(settled[r]) /\ Get(settled[r]).kind = "resolved"
Thrown(r) == Get(settled[r]).value
GenericMessage == "An internal server error occurred"
HasStatusCode(error) ==
    ~IsNullish(error.output) /\ ~IsNullish(Get(error.output).statusCode)
HasPayloadMessage(error) ==
    /\ ~IsNullish(error.output)
    /\ ~IsNullish(Get(error.output).payload)
    /\ ~IsNullish(Get(Get(error.output).payload).message)
PayloadMessage(error) == Get(Get(Get(error.output).payload).message)
LogEntriesOf(r) == SelectSeq(log, LAMBDA e : e.request = r)

\* C1: a request that fails to decode against its route's type is answered
\* with 400 whose body is the formatted validation errors joined with '|',
\* and the route's handler is never invoked for it.
C1_DecodeFailureIs400 ==
    \A r \in Requests :
        DecodeFails(r) =>
            /\ pc[r] = "done"
            /\ responses[r] =
                   <<[statusCode |-> 400,
                      body |-> JsString(Join(formatErrors(Validation(r).left), "|"))]>>
            /\ calls[r] = <<>>
            /\ IsNullish(settled[r])

\* a decode failure with two distinct validation errors has been answered
C1_Witness ==
    /\ DecodeFails(1)
    /\ Len(formatErrors(Validation(1).left)) = 2
    /\ Len(responses[1]) = 1

\* C2 as stated: a thrown error carrying output.statusCode = 404 is answered
\* with 404 and the error's own message.
C2_Original ==
    \A r \in Requests :
        (Threw(r) /\ HasStatusCode(Thrown(r))
                  /\ Get(Get(Thrown(r).output).statusCode) = 404) =>
            /\ Len(responses[r]) = 1
            /\ responses[r][1].statusCode = 404
            /\ responses[r][1].body = [message |-> Thrown(r).message]

\* C2 amended: a thrown error carrying output.statusCode = 404 is answered
\* with 404 and the message output.payload.message when that is present,
\* the generic text otherwise; the error's own message is not consulted.
C2_NotFoundMessage ==
    \A r \in Requests :
        (Threw(r) /\ HasStatusCode(Thrown(r))
                  /\ Get(Get(Thrown(r).output).statusCode) = 404) =>
            /\ Len(responses[r]) = 1
            /\ responses[r][1].statusCode = 404
            /\ responses[r][1].body =
                   [message |-> IF HasPayloadMessage(Thrown(r))
                                THEN PayloadMessage(Thrown(r))
                                ELSE GenericMessage]

\* a 404 error whose payload message differs from its own message was answered
C2_Witness ==
    /\ Threw(1)
    /\ HasStatusCode(Thrown(1))
    /\ Get(Get(Thrown(1).output).statusCode) = 404
    /\ HasPayloadMessage(Thrown(1))
    /\ PayloadMessage(Thrown(1)) # Thrown(1).message
    /\ Len(responses[1]) = 1

\* C3: for a thrown error the status is output.statusCode when present and
\* 500 otherwise, the message is output.payload.message when present and
\* the generic text otherwise, each fallback on its own.
C3_StatusAndMessageFallbacks ==
    \A r \in Requests :
        Threw(r) =>
            /\ Len(responses[r]) = 1
            /\ responses[r][1].statusCode =
                   IF HasStatusCode(Thrown(r))
                   THEN Get(Get(Thrown(r).output).statusCode) ELSE 500
            /\ responses[r][1].body.message =
                   IF HasPayloadMessage(Thrown(r))
                   THEN PayloadMessage(Thrown(r)) ELSE GenericMessage

\* an error with a status code but no payload message was answered
C3_Witness ==
    /\ Threw(1)
    /\ HasStatusCode(Thrown(1))
    /\ ~HasPayloadMessage(Thrown(1))
    /\ Len(responses[1]) = 1
    /\ responses[1][1].statusCode = 503

\* C4: when the request decodes and the handler returns, the answer is 200
\* with exactly the returned value as body, and the handler was given the
\* decoded value.
C4_SuccessIs200 ==
    \A r \in Requests :
        Returned(r) =>
            /\ Validation(r)._tag = "Right"
            /\ responses[r] = <<[statusCode |-> 200, body |-> Get(settled[r]).value]>>
            /\ Len(calls[r]) = 1
            /\ calls[r][1].data = Validation(r).right

\* a request whose decoded value differs from its raw parts has succeeded
C4_Witness ==
    /\ Returned(1)
    /\ Validation(1).right # RequestData(Get(req[1]))
    /\ Len(responses[1]) = 1

IsMessageEnvelope(body) == DOMAIN body = {"message"}
IsErrorResponse(response) == response.statusCode >= 400

C6_LoggedOnceByLevel ==
    \A r \in Requests :
        IF Threw(r)
        THEN /\ Len(LogEntriesOf(r)) = 1
             /\ LogEntriesOf(r)[1].level =
                    IF HasStatusCode(Thrown(r))
                    THEN IF Get(Get(Thrown(r).output).statusCode) >= 500
                         THEN "error" ELSE "debug"
                    ELSE "error"
             /\ LogEntriesOf(r)[1].error = Thrown(r)
        ELSE LogEntriesOf(r) = <<>>

\* an error carrying exactly 500 has been logged at error level
C6_Witness ==
    /\ Threw(1)
    /\ HasStatusCode(Thrown(1))
    /\ Get(Get(Thrown(1).output).statusCode) = 500
    /\ Len(log) = 1
    /\ log[1].level = "error"

-----------------------------------------------------------------------------
(* Properties of the entity list filter composer *)

IsShouldGroup(q) == DOMAIN q = {"bool"} /\ DOMAIN q.bool = {"should"}
NonEmpty(sel) == IF Len(sel) # 0 THEN 1 ELSE 0
HasGlobal(query) == IF IsNullish(query) THEN 0 ELSE 1

\* the list without the trailing caller-supplied query
OwnPart(list, query) == SubSeq(list, 1, Len(list) - HasGlobal(query))

\* which selection set a clause group was made for, told by its clauses
IsSeverityGroup(q) ==
    IsShouldGroup(q) /\ \A i \in 1..Len(q.bool.should) : DOMAIN q.bool.should[i] = {"terms"}
IsCriticalityGroup(q) ==
    /\ IsShouldGroup(q)
    /\ Len(q.bool.should) > 0
    /\ \A i \in 1..Len(q.bool.should) : DOMAIN q.bool.should[i] = {"term"}
IsSourceGroup(q) ==
    /\ IsShouldGroup(q)
    /\ Len(q.bool.should) > 0
    /\ \A i \in 1..Len(q.bool.should) :
          DOMAIN q.bool.should[i] \in {{"wildcard"}, {"bool"}}

CountOf(P(_), list) == Cardinality({i \in 1..Len(list) : P(list[i])})

\* the kinds of group present in a list
GroupsPresent(list, query) ==
    LET own == OwnPart(list, query)
    IN  {k \in {"severity", "criticality", "source"} :
            \E i \in 1..Len(own) :
                \/ k = "severity" /\ IsSeverityGroup(own[i])
                \/ k = "criticality" /\ IsCriticalityGroup(own[i])
                \/ k = "source" /\ IsSourceGroup(own[i])}

\* the reorderings of an array of distinct values
Reorderings(sel) ==
    {p \in [1..Len(sel) -> Range(sel)] : \A i, j \in 1..Len(sel) : p[i] = p[j] => i = j}

SupportedTypes(types) ==
    {i \in 1..Len(types) : EntityTypeToLevelField[types[i]] # RiskScoreFieldsUnsupported}

\* C7: the list holds exactly one should group for each non-empty selection
\* set and none for an empty one, the groups present are the same for every
\* order of the selected values, and with no supported entity type the
\* severity group is still there, with an empty should list.
C7_OneGroupPerSelection ==
    LET own == OwnPart(filterList, globalQuery)
    IN  /\ CountOf(IsShouldGroup, own) =
              NonEmpty(selectedSeverities) + NonEmpty(selectedCriticalities)
                  + NonEmpty(selectedSources)
        /\ CountOf(IsSeverityGroup, own) = NonEmpty(selectedSeverities)
        /\ CountOf(IsCriticalityGroup, own) = NonEmpty(selectedCriticalities)
        /\ CountOf(IsSourceGroup, own) = NonEmpty(selectedSources)
        /\ \A sev \in Reorderings(selectedSeverities),
              crit \in Reorderings(selectedCriticalities),
              src \in Reorderings(selectedSources) :
              GroupsPresent(useEntitiesListFilters(sev, crit, src, globalQuery,
                                                   enabledEntityTypes), globalQuery)
                  = GroupsPresent(filterList, globalQuery)
        /\ (Len(selectedSeverities) # 0 /\ SupportedTypes(enabledEntityTypes) = {}) =>
              CountOf(LAMBDA q : q = [bool |-> [should |-> <<>>]], own) = 1

\* severities are selected while no enabled entity type has a level field,
\* together with two criticalities
C7_Witness ==
    /\ Len(selectedSeverities) = 2
    /\ Len(enabledEntityTypes) = 1
    /\ SupportedTypes(enabledEntityTypes) = {}
    /\ Len(selectedCriticalities) = 2
    /\ Len(filterList) >= 2

\* C8: the list is the groups of the non-empty selection sets in the order
\* severity, criticality, source, then the global query when one is given,
\* and nothing else; so it is empty when nothing is selected and no global
\* query is given.
C8_FixedOrderThenGlobal ==
    LET k1 == NonEmpty(selectedSeverities)
        k2 == NonEmpty(selectedCriticalities)
        k3 == NonEmpty(selectedSources)
        k4 == HasGlobal(globalQuery)
    IN  /\ Len(filterList) = k1 + k2 + k3 + k4
        /\ k1 = 1 =>
              /\ IsSeverityGroup(filterList[1])
              /\ Len(filterList[1].bool.should) =
                     Cardinality(SupportedTypes(enabledEntityTypes))
              /\ \A i \in 1..Len(filterList[1].bool.should) :
                     \E f \in DOMAIN filterList[1].bool.should[i].terms :
                        filterList[1].bool.should[i].terms[f] = selectedSeverities
        /\ k2 = 1 =>
              /\ Len(filterList[k1 + 1].bool.should) = Len(selectedCriticalities)
              /\ \A i \in 1..Len(selectedCriticalities) :
                     filterList[k1 + 1].bool.should[i] =
                        [term |-> ("asset.criticality" :> selectedCriticalities[i])]
        /\ k3 = 1 =>
              /\ IsSourceGroup(filterList[k1 + k2 + 1])
              /\ Len(filterList[k1 + k2 + 1].bool.should) = Len(selectedSources)
        /\ k4 = 1 => filterList[Len(filterList)] = Get(globalQuery)
        /\ (k1 + k2 + k3 + k4 = 0) => filterList = <<>>

\* all three sets are selected from and a global query is given
C8_Witness ==
    /\ Len(selectedSeverities) # 0
    /\ Len(selectedCriticalities) # 0
    /\ Len(selectedSources) # 0
    /\ ~IsNullish(globalQuery)
    /\ Len(filterList) = 4

-----------------------------------------------------------------------------
(* Properties of the expression editor *)

Selecting == selected' = selected + 1
Resolving(k) ==
    /\ k <= Len(lookups)
    /\ lookups[k].status = "pending"
    /\ lookups'[k].status = "resolved"

\* C9 as stated: every index selection makes a field lookup for the selected
\* indices, and when a lookup resolves its result is stored in esFields.
C9_Original ==
    [][/\ Selecting =>
            lookups' = Append(lookups, [indices |-> Get(lastSelection'),
                                        status |-> "pending",
                                        by |-> "onIndexChange"])
       /\ \A k \in 1..MaxSelections + 1 :
            Resolving(k) => esFields' = Some(getFields(lookups[k].indices))]_vars

\* C9 amended: every selection of a non-empty index list makes a field
\* lookup for the selected indices, and when a lookup resolves its result is
\* stored in esFields; selecting the empty list makes no lookup and leaves
\* esFields as it is.
C9_LookupOnNonEmptySelection ==
    [][/\ (Selecting /\ Get(lastSelection') # <<>>) =>
            lookups' = Append(lookups, [indices |-> Get(lastSelection'),
                                        status |-> "pending",
                                        by |-> "onIndexChange"])
       /\ (Selecting /\ Get(lastSelection') = <<>>) =>
            lookups' = lookups /\ esFields' = esFields
       /\ \A k \in 1..MaxSelections + 1 :
            Resolving(k) => esFields' = Some(getFields(lookups[k].indices))]_vars

\* the lookup made for a selection that differs from the rendered index has
\* resolved and its fields are in esFields
C9_Witness ==
    \E k \in 1..Len(lookups) :
        /\ lookups[k].by = "onIndexChange"
        /\ lookups[k].status = "resolved"
        /\ lookups[k].indices = <<"logs-a", "logs-b">>
        /\ esFields = Some(getFields(lookups[k].indices))

\* C11: selecting the empty index list replaces the params by the previous
\* ones with index = [], timeField = '' and aggType, termSize,
\* thresholdComparator, timeWindowSize, timeWindowUnit, groupBy and threshold
\* at their default values, keeps aggField, termField and filterKuery, and
\* makes no field lookup; selecting a non-empty list writes the index param
\* only.
C11_EmptySelectionResetsParams ==
    [][Selecting =>
         IF Get(lastSelection') = <<>>
         THEN /\ ruleParams'.index = Some(JsArray(<<>>))
              /\ ruleParams'.timeField = Some("")
              /\ ruleParams'.aggType = Some("count")
              /\ ruleParams'.termSize = Some(5)
              /\ ruleParams'.thresholdComparator = Some(">")
              /\ ruleParams'.timeWindowSize = Some(5)
              /\ ruleParams'.timeWindowUnit = Some("m")
              /\ ruleParams'.groupBy = Some("all")
              /\ ruleParams'.threshold = Some(<<1000>>)
              /\ ruleParams'.aggField = ruleParams.aggField
              /\ ruleParams'.termField = ruleParams.termField
              /\ ruleParams'.filterKuery = ruleParams.filterKuery
              /\ DOMAIN ruleParams' = DOMAIN ruleParams
              /\ lookups' = lookups
         ELSE /\ ruleParams'.index = Some(JsArray(Get(lastSelection')))
              /\ \A key \in DOMAIN ruleParams \ {"index"} :
                    ruleParams'[key] = ruleParams[key]
              /\ DOMAIN ruleParams' = DOMAIN ruleParams]_vars

\* the indices of a saved rule with its own aggregation, grouping and filter
\* have just been cleared
C11_Witness ==
    /\ selected = 1
    /\ lastSelection = Some(<<>>)
    /\ ruleParams.index = Some(JsArray(<<>>))
    /\ ruleParams.aggType = Some("count")
    /\ ruleParams.timeField = Some("")
    /\ ruleParams.aggField = Some("bytes")
    /\ ruleParams.termField = Some("host.name")
    /\ ruleParams.filterKuery = Some("status:error")
    /\ lookups = <<[indices |-> <<"logs-b">>, status |-> "pending", by |-> "mount"]>>

\* C12: when the latest index selection is non-empty and every field lookup
\* made so far has resolved, esFields holds the fields of the latest
\* selection.
C12_LatestSelectionWins ==
    (/\ selected > 0
     /\ Get(lastSelection) # <<>>
     /\ \A k \in 1..Len(lookups) : lookups[k].status = "resolved")
        => esFields = Some(getFields(Get(lastSelection)))

====
